---------------------------- MODULE Spec2Model ----------------------------
(***************************************************************************)
(* Safe row migration engine of sheets-external-automation (src/index.js): *)
(* runMigrations (status columns H/K -> "Interested" / "Meeting Set") and  *)
(* runMsnCheckboxCopy (checkbox column F -> "MSN Creators") running        *)
(* against a remote spreadsheet that offers no transactions.               *)
(*                                                                         *)
(* The spreadsheet is a function from sheet titles to sequences of rows    *)
(* (element r is row r, row 1 is the header row of a populated sheet).     *)
(* A row holds the cells the code looks at: A (date), C (channel), F (MSN  *)
(* checkbox), H and K (status), T (unique id); every other cell is empty.  *)
(* Cell texts are strings; Chars gives the UTF-16 code units of each text, *)
(* on which checksum, lower-casing and substring search are computed as    *)
(* the JavaScript computes them.  The grid of every sheet is taken to be   *)
(* larger than its data and at least 20 columns wide (a sheet created by   *)
(* addSheet has 1000 rows and 26 columns).                                 *)
(***************************************************************************)
EXTENDS Integers, Sequences, FiniteSets, TLC

VARIABLES
  sheets,   \* the spreadsheet: title -> rows
  exists,   \* titles of the sheets the spreadsheet has
  clock,    \* Date.now(), in ticks
  runs,     \* runs started so far
  proc,     \* per process: position and local variables of its run
  pre,      \* the spreadsheet as it was when the current run started
  edited    \* outside edits made so far, each with the stage it fell in

vars == <<sheets, exists, clock, runs, proc, pre, edited>>

(*************************** bounds of the model ***************************)
\* data rows (below the header rows) of the whole spreadsheet in Init
MaxRecords == 3
\* engine runs started one after another in Spec
MaxRuns == 2
\* outside edits in SpecEdit
MaxEdits == 1

(************************** configuration (index.js) ***********************)
SRC1 == "GeneralCreators - Outreach"
SRC2 == "CreatorsWithNoYoutube"
INTERESTED == "Interested"
MEETING == "Meeting Set"
MSN_DEST_SHEET == "MSN Creators"

\* the category tabs of the model: the first two of the 26 of SHEETS
SHEETS == <<SRC1, SRC2>>
STATUS_SHEETS == SHEETS \o <<INTERESTED, MEETING>>
\* order of the tabs in the workbook (meta.sheets)
WorkbookOrder == <<SRC1, SRC2, INTERESTED, MEETING, MSN_DEST_SHEET>>
Titles == {WorkbookOrder[i] : i \in 1..Len(WorkbookOrder)}
MSN_SKIP_SET == {MSN_DEST_SHEET, "Automation Log"}

DATE_COL == 1
YT_COL == 3
MSN_CHECKBOX_COL == 6
STATUS_COL_H == 8
STATUS_COL_K == 11
ID_COL == 20
MSN_ID_COL == 20
MSN_HEADER_ROW == 1
MIGRATE_STATUS_AS_MOVE == TRUE
MIGRATE_MSN_AS_MOVE == TRUE
REQUIRE_DEST_ID_BEFORE_DELETE == TRUE
VERIFY_SOURCE_CHECKSUM_BEFORE_DELETE == TRUE

(******************************* cell texts ********************************)
Chars(s) ==
  CASE s = "" -> << >>
    [] s = "Date" -> <<68, 97, 116, 101>>
    [] s = "2024-01-01" -> <<50, 48, 50, 52, 45, 48, 49, 45, 48, 49>>
    [] s = "Interested" -> <<73, 110, 116, 101, 114, 101, 115, 116, 101, 100>>
    [] s = "Not Interested" -> <<78, 111, 116, 32, 73, 110, 116, 101, 114, 101, 115, 116, 101, 100>>
    [] s = "Meeting Set" -> <<77, 101, 101, 116, 105, 110, 103, 32, 83, 101, 116>>
    [] s = "interested - MEETING SET" -> <<105, 110, 116, 101, 114, 101, 115, 116, 101, 100, 32, 45, 32, 77, 69, 69, 84, 73, 78, 71, 32, 83, 69, 84>>
    [] s = "TRUE" -> <<84, 82, 85, 69>>
    [] s = "true" -> <<116, 114, 117, 101>>
    [] s = "FALSE" -> <<70, 65, 76, 83, 69>>
    [] s = "@a" -> <<64, 97>>
    [] s = "@b" -> <<64, 98>>
    [] s = "@c" -> <<64, 99>>
    [] s = "@d" -> <<64, 100>>
    [] s = "@e" -> <<64, 101>>
    [] s = "@f" -> <<64, 102>>
    [] s = "@g" -> <<64, 103>>
    [] s = "@h" -> <<64, 104>>
    [] s = "id-x" -> <<105, 100, 45, 120>>
    [] s = "id-y" -> <<105, 100, 45, 121>>
    [] s = "id-z" -> <<105, 100, 45, 122>>
    [] s = "id-w" -> <<105, 100, 45, 119>>
    [] s = "id-v" -> <<105, 100, 45, 118>>
    [] s = "id-u" -> <<105, 100, 45, 117>>
    [] s = "id-1" -> <<105, 100, 45, 49>>
    [] s = "id-2" -> <<105, 100, 45, 50>>
    [] s = "id-3" -> <<105, 100, 45, 51>>
    [] s = "id-4" -> <<105, 100, 45, 52>>
    [] s = "id-5" -> <<105, 100, 45, 53>>
    [] s = "id-6" -> <<105, 100, 45, 54>>
    [] s = "id-7" -> <<105, 100, 45, 55>>
    [] s = "id-8" -> <<105, 100, 45, 56>>
    [] s = "id-9" -> <<105, 100, 45, 57>>
    [] s = "edited" -> <<101, 100, 105, 116, 101, 100>>
    [] s = "Meeting" -> <<77, 101, 101, 116, 105, 110, 103>>
    [] s = "Set" -> <<83, 101, 116>>
    [] s = "NOT" -> <<78, 79, 84>>
    [] s = "Disinterested" -> <<68, 105, 115, 105, 110, 116, 101, 114, 101, 115, 116, 101, 100>>
    [] s = "meeting set" -> <<109, 101, 101, 116, 105, 110, 103, 32, 115, 101, 116>>
    [] s = "interested" -> <<105, 110, 116, 101, 114, 101, 115, 116, 101, 100>>
    [] s = "not interested" -> <<110, 111, 116, 32, 105, 110, 116, 101, 114, 101, 115, 116, 101, 100>>
    [] s = "rateLimitExceeded" -> <<114, 97, 116, 101, 76, 105, 109, 105, 116, 69, 120, 99, 101, 101, 100, 101, 100>>
    [] s = "userRateLimitExceeded" -> <<117, 115, 101, 114, 82, 97, 116, 101, 76, 105, 109, 105, 116, 69, 120, 99, 101, 101, 100, 101, 100>>
    [] s = "ETIMEDOUT" -> <<69, 84, 73, 77, 69, 68, 79, 85, 84>>
    [] s = "ECONNRESET" -> <<69, 67, 79, 78, 78, 82, 69, 83, 69, 84>>
    [] s = "read ECONNRESET" -> <<114, 101, 97, 100, 32, 69, 67, 79, 78, 78, 82, 69, 83, 69, 84>>
    [] s = "Bad Request" -> <<66, 97, 100, 32, 82, 101, 113, 117, 101, 115, 116>>
    [] s = "Follow up" -> <<70, 111, 108, 108, 111, 119, 32, 117, 112>>

\* generateUniqueId, index.js:119-121: "id-" + (Date.now() + random 0..999) in
\* base 36; n is the sum, counted in the model's clock ticks
IdStr(n) ==
  CASE n = 1 -> "id-1" [] n = 2 -> "id-2" [] n = 3 -> "id-3"
    [] n = 4 -> "id-4" [] n = 5 -> "id-5" [] n = 6 -> "id-6"
    [] n = 7 -> "id-7" [] n = 8 -> "id-8" [] OTHER -> "id-9"

\* Math.floor(Math.random() * 1000): the model draws from 0..RandRange-1
RandRange == 2

generateUniqueId(now, rnd) == IdStr(now + rnd)

(***************************** string helpers ******************************)
Max(a, b) == IF a >= b THEN a ELSE b

\* String.prototype.toLowerCase / toUpperCase on one ASCII code unit
LowerCode(c) == IF c >= 65 /\ c <= 90 THEN c + 32 ELSE c
UpperCode(c) == IF c >= 97 /\ c <= 122 THEN c - 32 ELSE c
toLowerCase(s) == [i \in 1..Len(s) |-> LowerCode(s[i])]
toUpperCase(s) == [i \in 1..Len(s) |-> UpperCode(s[i])]

\* String.prototype.includes
includes(s, needle) ==
  \E i \in 0..(Len(s) - Len(needle)) : SubSeq(s, i + 1, i + Len(needle)) = needle

NeedleMeetingSet == <<109, 101, 101, 116, 105, 110, 103, 32, 115, 101, 116>>
NeedleInterested == <<105, 110, 116, 101, 114, 101, 115, 116, 101, 100>>
NeedleNotInterested == <<110, 111, 116, 32>> \o NeedleInterested
NeedleTRUE == <<84, 82, 85, 69>>

(********************************* rows ************************************)
Row(a, c, f, h, k, t) == [a |-> a, c |-> c, f |-> f, h |-> h, k |-> k, t |-> t]
EmptyRow == Row("", "", "", "", "", "")

\* the cell of a row in column col (1-based)
ColValue(row, col) ==
  CASE col = DATE_COL -> row.a
    [] col = YT_COL -> row.c
    [] col = MSN_CHECKBOX_COL -> row.f
    [] col = STATUS_COL_H -> row.h
    [] col = STATUS_COL_K -> row.k
    [] col = ID_COL -> row.t
    [] OTHER -> ""

\* values.get returns a row up to its last non-empty cell
RowLen(row) ==
  IF row.t # "" THEN ID_COL
  ELSE IF row.k # "" THEN STATUS_COL_K
  ELSE IF row.h # "" THEN STATUS_COL_H
  ELSE IF row.f # "" THEN MSN_CHECKBOX_COL
  ELSE IF row.c # "" THEN YT_COL
  ELSE IF row.a # "" THEN DATE_COL
  ELSE 0

RowValues(row) == [col \in 1..RowLen(row) |-> ColValue(row, col)]

\* the row whose cells are the array vals, columns past Len(vals) taken from old
RowOfValues(vals, old) ==
  LET v(col, dflt) == IF col <= Len(vals) THEN vals[col] ELSE dflt
  IN  Row(v(DATE_COL, old.a), v(YT_COL, old.c), v(MSN_CHECKBOX_COL, old.f),
          v(STATUS_COL_H, old.h), v(STATUS_COL_K, old.k), v(ID_COL, old.t))

(*************************** simpleRowChecksum *****************************)
SEP == 9247
HashSeed == 5381
Word16 == 65536

RECURSIVE JoinCodes(_, _)
JoinCodes(arr, i) ==
  IF i > Len(arr) THEN << >>
  ELSE (IF i > 1 THEN <<SEP>> ELSE << >>) \o Chars(arr[i]) \o JoinCodes(arr, i + 1)

\* h = ((h << 5) + h) + c, kept modulo 2^32 as two 16-bit halves <<hi, lo>>
HashStep(h, c) ==
  LET lo2 == 33 * h[2] + c
  IN  <<(33 * h[1] + (lo2 \div Word16)) % Word16, lo2 % Word16>>

RECURSIVE HashFrom(_, _, _)
HashFrom(h, s, i) ==
  IF i > Len(s) THEN h
  ELSE LET h2 == HashStep(h, s[i])
       IN  IF h2[2] >= 0 THEN HashFrom(h2, s, i + 1) ELSE h2

\* (h >>> 0).toString(36): the base-36 text is one-to-one on 32-bit values, the
\* checksum is kept as the value
simpleRowChecksum(rowArray) == HashFrom(<<0, HashSeed>>, JoinCodes(rowArray, 1), 1)

(***************************** classification ******************************)
\* index.js:326-334
statText(row) == toLowerCase(Chars(row.h) \o <<32>> \o Chars(row.k))

\* the rule for "interested" is tried before the rule for "meeting set"
ClassifyInterestedFirst(row) ==
  LET st == statText(row)
  IN  IF includes(st, NeedleInterested) /\ ~includes(st, NeedleNotInterested)
      THEN INTERESTED
      ELSE IF includes(st, NeedleMeetingSet) THEN MEETING
      ELSE ""

Classify(row) ==
  LET st == statText(row)
  IN  IF includes(st, NeedleMeetingSet) THEN MEETING
      ELSE IF includes(st, NeedleInterested) /\ ~includes(st, NeedleNotInterested)
           THEN INTERESTED
      ELSE ""

\* every flag is taken for a ticked checkbox
isTrueAlways(flag) == TRUE

\* index.js:544
isTrue(flag) == toUpperCase(Chars(flag)) = NeedleTRUE

(**************************** the remote store *****************************)
RECURSIVE Trim(_)
Trim(s) ==
  IF Len(s) > 0 /\ s[Len(s)] = EmptyRow THEN Trim(SubSeq(s, 1, Len(s) - 1)) ELSE s

RowAt(sheet, r) == IF r >= 1 /\ r <= Len(sheet) THEN sheet[r] ELSE EmptyRow

SetRow(sheet, r, row) ==
  Trim([i \in 1..Max(Len(sheet), r) |-> IF i = r THEN row ELSE RowAt(sheet, i)])

\* deleteDimension ROWS [r-1, r)
DeleteRowAt(sheet, r) ==
  IF r < 1 \/ r > Len(sheet) THEN sheet
  ELSE Trim(SubSeq(sheet, 1, r - 1) \o SubSeq(sheet, r + 1, Len(sheet)))

\* values.get of <title>!A2:<last column><last row>
ReadRows(store, title) == SubSeq(store[title], 2, Len(store[title]))

\* the identity column is not consulted
ReadIdColBlank(store, title) == << >>

\* values.get of <title>!T2:T<last row>, one text per row
ReadIdCol(store, title) ==
  [i \in 1..(Len(store[title]) - 1) |-> store[title][i + 1].t]

IdAt(idCol, i) == IF i >= 1 /\ i <= Len(idCol) THEN idCol[i] ELSE ""

\* values.get of <title>!A:A has one entry per row up to the last row whose
\* column A holds a value
ColumnAUsed(store, title) ==
  LET S == {i \in 1..Len(store[title]) : store[title][i].a # ""}
  IN  IF S = {} THEN 0 ELSE CHOOSE m \in S : \A j \in S : j <= m

\* buildIdSet / buildIdSet2, index.js:275-284 and 419-428
buildIdSet(store, meta, title) ==
  IF title \notin meta THEN {}
  ELSE {store[title][r].t : r \in 2..Len(store[title])} \ {""}

\* getNextDestRow, index.js:308-316 (cached = 0 stands for null)
getNextDestRow(store, destTitle, cached) ==
  IF cached # 0 THEN cached ELSE ColumnAUsed(store, destTitle) + 1

\* findTrueBottomRowAPI, index.js:676-699: values.get returns texts, so the
\* test v === true of the checkbox column never holds and that column is skipped
HasData(row) ==
  \E col \in 1..MSN_ID_COL : col # MSN_CHECKBOX_COL /\ ColValue(row, col) # ""

findTrueBottomRowAPI(store, title) ==
  LET S == {r \in (MSN_HEADER_ROW + 1)..Len(store[title]) : HasData(store[title][r])}
  IN  IF S = {} THEN MSN_HEADER_ROW ELSE CHOOSE m \in S : \A j \in S : j <= m

(************************ requests of a batchUpdate ************************)
CopyPaste(src, srcRow, dst, dstRow) ==
  [kind |-> "copyPaste", src |-> src, srcRow |-> srcRow, data |-> << >>,
   dst |-> dst, dstRow |-> dstRow]
PasteData(data, dst, dstRow) ==
  [kind |-> "pasteData", src |-> "", srcRow |-> 0, data |-> data,
   dst |-> dst, dstRow |-> dstRow]
UpdateCells(dst, dstRow) ==
  [kind |-> "updateCells", src |-> "", srcRow |-> 0, data |-> << >>,
   dst |-> dst, dstRow |-> dstRow]
DeleteDimension(title, row) ==
  [kind |-> "deleteDimension", src |-> "", srcRow |-> 0, data |-> << >>,
   dst |-> title, dstRow |-> row]

ApplyRequest(store, q) ==
  LET old == RowAt(store[q.dst], q.dstRow)
  IN  CASE q.kind = "copyPaste" ->
             [store EXCEPT ![q.dst] = SetRow(store[q.dst], q.dstRow,
                                             RowAt(store[q.src], q.srcRow))]
        [] q.kind = "pasteData" ->
             [store EXCEPT ![q.dst] = SetRow(store[q.dst], q.dstRow,
                                             RowOfValues(q.data, old))]
        [] q.kind = "updateCells" ->
             [store EXCEPT ![q.dst] = SetRow(store[q.dst], q.dstRow,
                                             [old EXCEPT !.f = "TRUE"])]
        [] OTHER ->
             [store EXCEPT ![q.dst] = DeleteRowAt(store[q.dst], q.dstRow)]

\* spreadsheets.batchUpdate applies its requests in order
RECURSIVE ApplyFrom(_, _, _)
ApplyFrom(store, reqs, i) ==
  IF i > Len(reqs) THEN store ELSE ApplyFrom(ApplyRequest(store, reqs[i]), reqs, i + 1)
batchUpdate(store, reqs) == ApplyFrom(store, reqs, 1)

\* spreadsheets.values.batchUpdate of the id writes [row, id] of one sheet
RECURSIVE WriteIdsFrom(_, _, _)
WriteIdsFrom(sheet, idWrites, i) ==
  IF i > Len(idWrites) THEN sheet
  ELSE WriteIdsFrom(SetRow(sheet, idWrites[i][1],
                           [RowAt(sheet, idWrites[i][1]) EXCEPT !.t = idWrites[i][2]]),
                    idWrites, i + 1)
valuesBatchUpdate(store, title, idWrites) ==
  [store EXCEPT ![title] = WriteIdsFrom(store[title], idWrites, 1)]

\* rowsToDelete.sort((a, b) => b - a)
RECURSIVE InsertDesc(_, _)
InsertDesc(sorted, x) ==
  IF sorted = << >> THEN <<x>>
  ELSE IF x > sorted[1] THEN <<x>> \o sorted
  ELSE <<sorted[1]>> \o InsertDesc(Tail(sorted), x)
RECURSIVE SortFrom(_, _, _)
SortFrom(sorted, s, i) ==
  IF i > Len(s) THEN sorted ELSE SortFrom(InsertDesc(sorted, s[i]), s, i + 1)
sortAscending(s) == s

sortDescending(s) == SortFrom(<< >>, s, 1)

(***************************** delete guards *******************************)
DestIdGuardOff(id, have) == TRUE

\* index.js:452-455 and 641
DestIdGuard(id, have) == ~REQUIRE_DEST_ID_BEFORE_DELETE \/ id \in have

ChecksumGuardOff(item, sourceRows) == TRUE

\* index.js:456-459 and 642-645: sourceRowsValues[rowIdx1 - 2] || []
ChecksumGuard(item, sourceRows) ==
  \/ ~VERIFY_SOURCE_CHECKSUM_BEFORE_DELETE
  \/ simpleRowChecksum(RowValues(RowAt(sourceRows, item.rowIdx1 - 1))) = item.checksum

\* index.js:449-461 and 639-647: the rows of one sheet admitted for deletion
rowsToDelete(list, have, sourceRows) ==
  LET Admit(item) == DestIdGuard(item.id, have[item.dest]) /\ ChecksumGuard(item, sourceRows)
      kept == SelectSeq(list, Admit)
  IN  [j \in 1..Len(kept) |-> kept[j].rowIdx1]

\* index.js:463-475 and 649-660
deleteRequestsOf(title, rows) ==
  LET sorted == sortDescending(rows)
  IN  [j \in 1..Len(sorted) |-> DeleteDimension(title, sorted[j])]

(************* errors of remote calls (webhook/scripts/stop_watch.sh) ******)
\* the errors fn may throw: e.code, e.response.status (0 when absent) and
\* e.message ("" when absent)
ErrorCodes == {0, 400, 403, 429, 500, 502, 503}
ErrorStatuses == {0, 404, 429}
ErrorMessages ==
  {"", "rateLimitExceeded", "userRateLimitExceeded", "ETIMEDOUT",
   "read ECONNRESET", "Bad Request"}

\* an error carries a code, or a response status, or a message, or (as the
\* 403 of a rate limit does) a code and a message
Errors ==
  {e \in [code : ErrorCodes, status : ErrorStatuses, message : ErrorMessages] :
     \/ e.status = 0 /\ e.message = ""
     \/ e.code = 0 /\ e.message = ""
     \/ e.code = 0 /\ e.status = 0
     \/ e.code = 403 /\ e.status = 0}

NoError == [code |-> 0, status |-> 0, message |-> ""]

\* stop_watch.sh:58: e?.code || e?.response?.status
codeOf(e) == IF e.code # 0 THEN e.code ELSE e.status

\* every error is taken for transient
retryableAlways(e) == TRUE

\* stop_watch.sh:59-66
retryable(e) ==
  \/ codeOf(e) = 429
  \/ codeOf(e) = 503
  \/ codeOf(e) = 500
  \/ includes(Chars(e.message), Chars("rateLimitExceeded"))
  \/ includes(Chars(e.message), Chars("userRateLimitExceeded"))
  \/ includes(Chars(e.message), Chars("ETIMEDOUT"))
  \/ includes(Chars(e.message), Chars("ECONNRESET"))

\* the errors a remote call of the engine is made to fail with: a rate limit
\* and a bad request
RemoteErrors ==
  {[code |-> 429, status |-> 0, message |-> ""],
   [code |-> 400, status |-> 0, message |-> "Bad Request"]}

(****************************** processes **********************************)
Procs == {1, 2}

InitLocal ==
  [pc |-> "idle", after |-> "none", meta |-> {}, meta2 |-> {},
   interestedIds |-> {}, meetingIds |-> {}, destIdSet |-> {},
   copyRequests |-> << >>, perSheetDeletePlan |-> << >>,
   si |-> 0, rows |-> << >>, idCol |-> << >>, i |-> 0,
   interestedNextRow |-> 0, meetingNextRow |-> 0, nextDestRow |-> 0,
   idWrites |-> << >>, toMaybeDelete |-> << >>,
   have |-> [d \in {INTERESTED, MEETING, MSN_DEST_SHEET} |-> {}],
   vi |-> 0, deleteRequests |-> << >>, copied |-> FALSE,
   err |-> NoError, exitCode |-> 0]

Set(p, l) == proc' = [proc EXCEPT ![p] = l]

(****************************** runMigrations ******************************)
RECURSIVE NextSheetIdx(_, _)
NextSheetIdx(meta, k) ==
  IF k > Len(STATUS_SHEETS) THEN k
  ELSE IF STATUS_SHEETS[k] \in meta THEN k
  ELSE NextSheetIdx(meta, k + 1)

SheetPc(meta, k) == IF NextSheetIdx(meta, k) > Len(STATUS_SHEETS) THEN "m_copy" ELSE "m_rows"

\* index.js:267
MGetMeta(p) ==
  /\ proc[p].pc = "m_meta"
  /\ Set(p, [proc[p] EXCEPT !.pc = "m_ensureI", !.meta = exists])
  /\ UNCHANGED <<sheets, exists, clock, runs, pre, edited>>

\* getOrCreateSheet, index.js:142-153, called at 270 and 272: addSheet when the
\* cached metadata lacks the title
getOrCreateSheet(p, title, from, to) ==
  /\ proc[p].pc = from
  /\ title \in proc[p].meta \/ title \notin exists
  /\ exists' = exists \cup {title}
  /\ Set(p, [proc[p] EXCEPT !.pc = to])
  /\ UNCHANGED <<sheets, clock, runs, pre, edited>>

\* index.js:271 and 273
MRefreshMeta(p, from, to) ==
  /\ proc[p].pc = from
  /\ Set(p, [proc[p] EXCEPT !.pc = to, !.meta = exists])
  /\ UNCHANGED <<sheets, exists, clock, runs, pre, edited>>

MEnsureInterested(p) == getOrCreateSheet(p, INTERESTED, "m_ensureI", "m_metaI")
MMetaInterested(p) == MRefreshMeta(p, "m_metaI", "m_ensureM")
MEnsureMeeting(p) == getOrCreateSheet(p, MEETING, "m_ensureM", "m_metaM")
MMetaMeeting(p) == MRefreshMeta(p, "m_metaM", "m_idsI")

\* index.js:285
MBuildIdSetInterested(p) ==
  /\ proc[p].pc = "m_idsI"
  /\ Set(p, [proc[p] EXCEPT !.pc = "m_idsM",
                            !.interestedIds = buildIdSet(sheets, proc[p].meta, INTERESTED)])
  /\ UNCHANGED <<sheets, exists, clock, runs, pre, edited>>

\* index.js:286, then the head of the loop at 291-298
MBuildIdSetMeeting(p) ==
  /\ proc[p].pc = "m_idsM"
  /\ Set(p, [proc[p] EXCEPT !.pc = SheetPc(proc[p].meta, 1),
                            !.si = NextSheetIdx(proc[p].meta, 1),
                            !.meetingIds = buildIdSet(sheets, proc[p].meta, MEETING)])
  /\ UNCHANGED <<sheets, exists, clock, runs, pre, edited>>

\* index.js:300-302
MReadRows(p) ==
  /\ proc[p].pc = "m_rows"
  /\ Set(p, [proc[p] EXCEPT !.pc = "m_idcol",
                            !.rows = ReadRows(sheets, STATUS_SHEETS[proc[p].si])])
  /\ UNCHANGED <<sheets, exists, clock, runs, pre, edited>>

\* index.js:304-321
MReadIdCol(p) ==
  /\ proc[p].pc = "m_idcol"
  /\ Set(p, [proc[p] EXCEPT !.pc = IF Len(proc[p].rows) = 0 THEN "m_flush" ELSE "m_plan",
                            !.idCol = ReadIdCol(sheets, STATUS_SHEETS[proc[p].si]),
                            !.i = 1,
                            !.interestedNextRow = 0, !.meetingNextRow = 0,
                            !.idWrites = << >>, !.toMaybeDelete = << >>])
  /\ UNCHANGED <<sheets, exists, clock, runs, pre, edited>>

SetIdAt(idCol, i, id) ==
  [j \in 1..Max(Len(idCol), i) |-> IF j = i THEN id ELSE IdAt(idCol, j)]

\* the body of the loop over the rows of one sheet, index.js:323-392, for row
\* l.i; id is the row's id, freshly generated when mint
PlanRow(l, store, id, mint) ==
  LET title == STATUS_SHEETS[l.si]
      row == l.rows[l.i]
      rowIdx1 == l.i + 1
      dest == Classify(row)
      present == IF dest = INTERESTED THEN id \in l.interestedIds
                 ELSE id \in l.meetingIds
      interestedNextRow == IF dest = INTERESTED
                           THEN getNextDestRow(store, INTERESTED, l.interestedNextRow)
                           ELSE l.interestedNextRow
      meetingNextRow == IF dest = MEETING
                        THEN getNextDestRow(store, MEETING, l.meetingNextRow)
                        ELSE l.meetingNextRow
      destRow == IF dest = INTERESTED THEN interestedNextRow ELSE meetingNextRow
      l1 == [l EXCEPT !.i = l.i + 1,
                      !.pc = IF l.i + 1 > Len(l.rows) THEN "m_flush" ELSE "m_plan"]
      l2 == IF mint
            THEN [l1 EXCEPT !.idCol = SetIdAt(l.idCol, l.i, id),
                            !.idWrites = Append(l.idWrites, <<rowIdx1, id>>)]
            ELSE l1
  IN  IF dest = "" THEN l1
      ELSE IF present THEN l2
      ELSE [l2 EXCEPT
              !.interestedNextRow = IF dest = INTERESTED THEN interestedNextRow + 1
                                    ELSE interestedNextRow,
              !.meetingNextRow = IF dest = MEETING THEN meetingNextRow + 1
                                 ELSE meetingNextRow,
              !.copyRequests = Append(l.copyRequests, CopyPaste(title, rowIdx1, dest, destRow)),
              !.toMaybeDelete =
                 IF MIGRATE_STATUS_AS_MOVE
                 THEN Append(l.toMaybeDelete,
                             [rowIdx1 |-> rowIdx1,
                              checksum |-> simpleRowChecksum(RowValues(row)),
                              dest |-> dest, id |-> id])
                 ELSE l.toMaybeDelete,
              !.interestedIds = IF dest = INTERESTED THEN l.interestedIds \cup {id}
                                ELSE l.interestedIds,
              !.meetingIds = IF dest = MEETING THEN l.meetingIds \cup {id}
                             ELSE l.meetingIds]

MPlanRow(p) ==
  LET l == proc[p]
      mint == Classify(l.rows[l.i]) # "" /\ IdAt(l.idCol, l.i) = ""
  IN  /\ l.pc = "m_plan"
      /\ \E rnd \in 0..(RandRange - 1) :
           /\ ~mint => rnd = 0
           /\ Set(p, PlanRow(l, sheets,
                             IF mint THEN generateUniqueId(clock, rnd) ELSE IdAt(l.idCol, l.i),
                             mint))
      /\ clock' = IF mint THEN clock + 1 ELSE clock
      /\ UNCHANGED <<sheets, exists, runs, pre, edited>>

\* the staged identities of the sheet are not written back
MWriteIdsSkipped(p) ==
  LET l == proc[p]
      title == STATUS_SHEETS[l.si]
  IN  /\ l.pc = "m_flush"
      /\ sheets' = sheets
      /\ Set(p, [l EXCEPT !.pc = SheetPc(l.meta, l.si + 1),
                          !.si = NextSheetIdx(l.meta, l.si + 1),
                          !.perSheetDeletePlan =
                             IF MIGRATE_STATUS_AS_MOVE /\ Len(l.toMaybeDelete) > 0
                             THEN Append(l.perSheetDeletePlan,
                                         [title |-> title, list |-> l.toMaybeDelete])
                             ELSE l.perSheetDeletePlan])
      /\ UNCHANGED <<exists, clock, runs, pre, edited>>

\* index.js:394-409, then the head of the loop for the next sheet
MWriteIds(p) ==
  LET l == proc[p]
      title == STATUS_SHEETS[l.si]
  IN  /\ l.pc = "m_flush"
      /\ sheets' = valuesBatchUpdate(sheets, title, l.idWrites)
      /\ Set(p, [l EXCEPT !.pc = SheetPc(l.meta, l.si + 1),
                          !.si = NextSheetIdx(l.meta, l.si + 1),
                          !.perSheetDeletePlan =
                             IF MIGRATE_STATUS_AS_MOVE /\ Len(l.toMaybeDelete) > 0
                             THEN Append(l.perSheetDeletePlan,
                                         [title |-> title, list |-> l.toMaybeDelete])
                             ELSE l.perSheetDeletePlan])
      /\ UNCHANGED <<exists, clock, runs, pre, edited>>

\* the copy batch is not awaited: the run goes on before it is acknowledged
MCommitCopiesNotAwaited(p) ==
  /\ proc[p].pc = "m_copy"
  /\ sheets' = sheets
  /\ Set(p, [proc[p] EXCEPT !.pc = "m_meta2"])
  /\ UNCHANGED <<exists, clock, runs, pre, edited>>

\* index.js:411-414; copied records that a copy batch was sent and acknowledged
MCommitCopies(p) ==
  /\ proc[p].pc = "m_copy"
  /\ sheets' = batchUpdate(sheets, proc[p].copyRequests)
  /\ Set(p, [proc[p] EXCEPT !.pc = "m_meta2",
                            !.copied = Len(proc[p].copyRequests) > 0])
  /\ UNCHANGED <<exists, clock, runs, pre, edited>>

\* index.js:418
MGetMeta2(p) ==
  /\ proc[p].pc = "m_meta2"
  /\ Set(p, [proc[p] EXCEPT !.pc = "m_haveI", !.meta2 = exists])
  /\ UNCHANGED <<sheets, exists, clock, runs, pre, edited>>

\* the planner's set of 'Interested' ids stands in for the second read
MBuildIdSet2InterestedFromPlanner(p) ==
  /\ proc[p].pc = "m_haveI"
  /\ Set(p, [proc[p] EXCEPT !.pc = "m_haveM",
                            !.have[INTERESTED] = proc[p].interestedIds])
  /\ UNCHANGED <<sheets, exists, clock, runs, pre, edited>>

\* index.js:429
MBuildIdSet2Interested(p) ==
  /\ proc[p].pc = "m_haveI"
  /\ Set(p, [proc[p] EXCEPT !.pc = "m_haveM",
                            !.have[INTERESTED] = buildIdSet(sheets, proc[p].meta2, INTERESTED)])
  /\ UNCHANGED <<sheets, exists, clock, runs, pre, edited>>

\* index.js:430-432
MBuildIdSet2Meeting(p) ==
  /\ proc[p].pc = "m_haveM"
  /\ Set(p, [proc[p] EXCEPT !.pc = IF Len(proc[p].perSheetDeletePlan) = 0
                                   THEN "m_delete" ELSE "m_verify",
                            !.vi = 1,
                            !.have[MEETING] = buildIdSet(sheets, proc[p].meta2, MEETING)])
  /\ UNCHANGED <<sheets, exists, clock, runs, pre, edited>>

\* one pass of the loop at index.js:434-476
MVerifySheet(p) ==
  LET l == proc[p]
      entry == l.perSheetDeletePlan[l.vi]
      sourceRowsValues == ReadRows(sheets, entry.title)
      rows == rowsToDelete(entry.list, l.have, sourceRowsValues)
  IN  /\ l.pc = "m_verify"
      /\ Set(p, [l EXCEPT !.pc = IF l.vi + 1 > Len(l.perSheetDeletePlan)
                                 THEN "m_delete" ELSE "m_verify",
                          !.vi = l.vi + 1,
                          !.deleteRequests = l.deleteRequests \o deleteRequestsOf(entry.title, rows)])
      /\ UNCHANGED <<sheets, exists, clock, runs, pre, edited>>

\* index.js:478-483
MCommitDeletes(p) ==
  /\ proc[p].pc = "m_delete"
  /\ sheets' = batchUpdate(sheets, proc[p].deleteRequests)
  /\ Set(p, [proc[p] EXCEPT !.pc = "m_end"])
  /\ UNCHANGED <<exists, clock, runs, pre, edited>>

runMigrations(p) ==
  \/ MGetMeta(p) \/ MEnsureInterested(p) \/ MMetaInterested(p)
  \/ MEnsureMeeting(p) \/ MMetaMeeting(p)
  \/ MBuildIdSetInterested(p) \/ MBuildIdSetMeeting(p)
  \/ MReadRows(p) \/ MReadIdCol(p) \/ MPlanRow(p) \/ MWriteIds(p)
  \/ MCommitCopies(p) \/ MGetMeta2(p)
  \/ MBuildIdSet2Interested(p) \/ MBuildIdSet2Meeting(p)
  \/ MVerifySheet(p) \/ MCommitDeletes(p)

(**************************** runMsnCheckboxCopy ***************************)
RECURSIVE NextMsnIdx(_, _)
NextMsnIdx(meta, k) ==
  IF k > Len(WorkbookOrder) THEN k
  ELSE IF WorkbookOrder[k] \in meta /\ WorkbookOrder[k] \notin MSN_SKIP_SET THEN k
  ELSE NextMsnIdx(meta, k + 1)

MsnPc(meta, k) == IF NextMsnIdx(meta, k) > Len(WorkbookOrder) THEN "x_copy" ELSE "x_rows"

\* index.js:492
XGetMeta(p) ==
  /\ proc[p].pc = "x_meta"
  /\ Set(p, [proc[p] EXCEPT !.pc = "x_ensure", !.meta = exists])
  /\ UNCHANGED <<sheets, exists, clock, runs, pre, edited>>

\* index.js:493-494
XEnsureDest(p) == getOrCreateSheet(p, MSN_DEST_SHEET, "x_ensure", "x_metaD")
XMetaDest(p) == MRefreshMeta(p, "x_metaD", "x_ids")

\* index.js:496-504
XReadDestIds(p) ==
  /\ proc[p].pc = "x_ids"
  /\ Set(p, [proc[p] EXCEPT !.pc = "x_bottom",
                            !.destIdSet = buildIdSet(sheets, proc[p].meta, MSN_DEST_SHEET)])
  /\ UNCHANGED <<sheets, exists, clock, runs, pre, edited>>

\* index.js:506-513, then the head of the loop at 515-521
XFindBottom(p) ==
  /\ proc[p].pc = "x_bottom"
  /\ Set(p, [proc[p] EXCEPT !.pc = MsnPc(proc[p].meta, 1),
                            !.si = NextMsnIdx(proc[p].meta, 1),
                            !.nextDestRow = findTrueBottomRowAPI(sheets, MSN_DEST_SHEET) + 1])
  /\ UNCHANGED <<sheets, exists, clock, runs, pre, edited>>

\* index.js:523-532: the checkbox column and the rows, read together
XReadRows(p) ==
  /\ proc[p].pc = "x_rows"
  /\ Set(p, [proc[p] EXCEPT !.pc = "x_idcol",
                            !.rows = ReadRows(sheets, WorkbookOrder[proc[p].si])])
  /\ UNCHANGED <<sheets, exists, clock, runs, pre, edited>>

\* index.js:534-540
XReadIdCol(p) ==
  /\ proc[p].pc = "x_idcol"
  /\ Set(p, [proc[p] EXCEPT !.pc = IF Len(proc[p].rows) = 0 THEN "x_flush" ELSE "x_plan",
                            !.idCol = ReadIdCol(sheets, WorkbookOrder[proc[p].si]),
                            !.i = 1, !.idWrites = << >>, !.toMaybeDelete = << >>])
  /\ UNCHANGED <<sheets, exists, clock, runs, pre, edited>>

\* the body of the loop over the rows of one sheet, index.js:542-596; the cell
\* texts of the model hold no tab and no line break, so the tab-joined data of
\* pasteData is pasted cell by cell
MsnPlanRow(l, id, mint) ==
  LET row == l.rows[l.i]
      rowIdx1 == MSN_HEADER_ROW + l.i
      l1 == [l EXCEPT !.i = l.i + 1,
                      !.pc = IF l.i + 1 > Len(l.rows) THEN "x_flush" ELSE "x_plan"]
      l2 == IF mint
            THEN [l1 EXCEPT !.idCol = SetIdAt(l.idCol, l.i, id),
                            !.idWrites = Append(l.idWrites, <<rowIdx1, id>>)]
            ELSE l1
  IN  IF ~isTrue(row.f) THEN l1
      ELSE IF id \in l.destIdSet THEN l2
      ELSE [l2 EXCEPT
              !.copyRequests = l.copyRequests \o
                 <<PasteData(RowValues(row), MSN_DEST_SHEET, l.nextDestRow),
                   UpdateCells(MSN_DEST_SHEET, l.nextDestRow)>>,
              !.toMaybeDelete =
                 IF MIGRATE_MSN_AS_MOVE
                 THEN Append(l.toMaybeDelete,
                             [rowIdx1 |-> rowIdx1,
                              checksum |-> simpleRowChecksum(RowValues(row)),
                              dest |-> MSN_DEST_SHEET, id |-> id])
                 ELSE l.toMaybeDelete,
              !.destIdSet = l.destIdSet \cup {id},
              !.nextDestRow = l.nextDestRow + 1]

XPlanRow(p) ==
  LET l == proc[p]
      mint == isTrue(l.rows[l.i].f) /\ IdAt(l.idCol, l.i) = ""
  IN  /\ l.pc = "x_plan"
      /\ \E rnd \in 0..(RandRange - 1) :
           /\ ~mint => rnd = 0
           /\ Set(p, MsnPlanRow(l, IF mint THEN generateUniqueId(clock, rnd)
                                   ELSE IdAt(l.idCol, l.i),
                                mint))
      /\ clock' = IF mint THEN clock + 1 ELSE clock
      /\ UNCHANGED <<sheets, exists, runs, pre, edited>>

\* index.js:598-608, then the head of the loop for the next sheet
XWriteIds(p) ==
  LET l == proc[p]
      title == WorkbookOrder[l.si]
  IN  /\ l.pc = "x_flush"
      /\ sheets' = valuesBatchUpdate(sheets, title, l.idWrites)
      /\ Set(p, [l EXCEPT !.pc = MsnPc(l.meta, l.si + 1),
                          !.si = NextMsnIdx(l.meta, l.si + 1),
                          !.perSheetDeletePlan =
                             IF Len(l.toMaybeDelete) > 0
                             THEN Append(l.perSheetDeletePlan,
                                         [title |-> title, list |-> l.toMaybeDelete])
                             ELSE l.perSheetDeletePlan])
      /\ UNCHANGED <<exists, clock, runs, pre, edited>>

\* index.js:610-613
XCommitCopies(p) ==
  /\ proc[p].pc = "x_copy"
  /\ sheets' = batchUpdate(sheets, proc[p].copyRequests)
  /\ Set(p, [proc[p] EXCEPT !.pc = "x_have",
                            !.copied = Len(proc[p].copyRequests) > 0])
  /\ UNCHANGED <<exists, clock, runs, pre, edited>>

\* index.js:616-622
XReadHaveId(p) ==
  /\ proc[p].pc = "x_have"
  /\ Set(p, [proc[p] EXCEPT !.pc = "x_meta2",
                            !.have[MSN_DEST_SHEET] = buildIdSet(sheets, exists, MSN_DEST_SHEET)])
  /\ UNCHANGED <<sheets, exists, clock, runs, pre, edited>>

\* index.js:623
XGetMeta2(p) ==
  /\ proc[p].pc = "x_meta2"
  /\ Set(p, [proc[p] EXCEPT !.pc = IF Len(proc[p].perSheetDeletePlan) = 0
                                   THEN "x_delete" ELSE "x_verify",
                            !.vi = 1, !.meta2 = exists])
  /\ UNCHANGED <<sheets, exists, clock, runs, pre, edited>>

\* one pass of the loop at index.js:625-661 for a sheet that has a plan
XVerifySheet(p) ==
  LET l == proc[p]
      entry == l.perSheetDeletePlan[l.vi]
      sourceRowsValues == ReadRows(sheets, entry.title)
      rows == rowsToDelete(entry.list, l.have, sourceRowsValues)
  IN  /\ l.pc = "x_verify"
      /\ Set(p, [l EXCEPT !.pc = IF l.vi + 1 > Len(l.perSheetDeletePlan)
                                 THEN "x_delete" ELSE "x_verify",
                          !.vi = l.vi + 1,
                          !.deleteRequests = l.deleteRequests \o deleteRequestsOf(entry.title, rows)])
      /\ UNCHANGED <<sheets, exists, clock, runs, pre, edited>>

\* index.js:663-668
XCommitDeletes(p) ==
  /\ proc[p].pc = "x_delete"
  /\ sheets' = batchUpdate(sheets, proc[p].deleteRequests)
  /\ Set(p, [proc[p] EXCEPT !.pc = "done"])
  /\ UNCHANGED <<exists, clock, runs, pre, edited>>

runMsnCheckboxCopy(p) ==
  \/ XGetMeta(p) \/ XEnsureDest(p) \/ XMetaDest(p) \/ XReadDestIds(p) \/ XFindBottom(p)
  \/ XReadRows(p) \/ XReadIdCol(p) \/ XPlanRow(p) \/ XWriteIds(p)
  \/ XCommitCopies(p) \/ XReadHaveId(p) \/ XGetMeta2(p)
  \/ XVerifySheet(p) \/ XCommitDeletes(p)

(********************************* run *************************************)
Ended(pc) == pc \in {"idle", "done", "aborted"}

\* the positions of a call of withBackoff, which is no run of the engine
WbPcs == {"wb_try", "wb_sleep", "wb_returned", "wb_thrown"}

\* run, index.js:705-716: a new invocation of the engine; the highlighting of
\* column C (formatting only) is left out
StartRunUpTo(p, n) ==
  /\ Ended(proc[p].pc)
  /\ runs < n
  /\ runs' = runs + 1
  /\ pre' = sheets
  /\ Set(p, [InitLocal EXCEPT !.pc = "m_meta", !.after = proc[p].pc])
  /\ UNCHANGED <<sheets, exists, clock, edited>>

StartRun(p) == StartRunUpTo(p, MaxRuns)
StartOnce(p) == StartRunUpTo(p, 1)

\* index.js:716-719: runMigrations returned, runMsnCheckboxCopy is called
CallMsn(p) ==
  /\ proc[p].pc = "m_end"
  /\ Set(p, [InitLocal EXCEPT !.pc = "x_meta", !.after = proc[p].after])
  /\ UNCHANGED <<sheets, exists, clock, runs, pre, edited>>

\* index.js:724-727: a remote call of the run throws e (no call is wrapped in
\* a retry); the request that failed changed nothing, run().catch logs the
\* error and exits with code 1
Abort(p) ==
  /\ ~Ended(proc[p].pc)
  /\ proc[p].pc \notin WbPcs
  /\ \E e \in RemoteErrors :
       Set(p, [InitLocal EXCEPT !.pc = "aborted", !.after = proc[p].after,
                                !.err = e, !.exitCode = 1])
  /\ UNCHANGED <<sheets, exists, clock, runs, pre, edited>>

(***************************** initial stores ******************************)
DATE == "2024-01-01"
Hdr == Row("Date", "", "", "", "", "")

HandleOf(r) == CASE r = 2 -> "@a" [] r = 3 -> "@b" [] r = 4 -> "@c" [] OTHER -> "@d"
IdOf(r) == CASE r = 2 -> "id-x" [] r = 3 -> "id-y" [] r = 4 -> "id-z" [] OTHER -> "id-u"

\* a data row of the first category sheet: matched and identified, matched and
\* not yet identified, or not matched, identified and ticked for MSN
Src1Row(k, r) ==
  CASE k = 1 -> Row(DATE, HandleOf(r), "", "Interested", "", IdOf(r))
    [] k = 2 -> Row(DATE, HandleOf(r), "", "Interested", "", "")
    [] OTHER -> Row(DATE, HandleOf(r), "TRUE", "Not Interested", "", IdOf(r))

Src1Sheets ==
  {<<Hdr>> \o [j \in 1..Len(f) |-> Src1Row(f[j], j + 1)] :
     f \in UNION {[1..m -> 1..3] : m \in 0..MaxRecords}}

\* the second category sheet: header only, or one data row (matched, ticked
\* for MSN, matched by both rules, or neither matched nor ticked)
Src2Sheets ==
  {<<Hdr>>,
   <<Hdr, Row(DATE, "@e", "", "Interested", "", "id-w")>>,
   <<Hdr, Row(DATE, "@e", "TRUE", "", "", "")>>,
   <<Hdr, Row(DATE, "@e", "", "interested - MEETING SET", "", "")>>,
   <<Hdr, Row(DATE, "@e", "", "Follow up", "", "")>>}

\* "Interested": not yet created, header only, or a header and one data row
\* (with no date in column A, or matched and not yet identified)
InterestedSheets ==
  {<< >>,
   <<Hdr>>,
   <<Hdr, Row("", "@g", "", "Interested", "", "id-v")>>,
   <<Hdr, Row(DATE, "@g", "", "Interested", "", "")>>}

Store(s1, s2, si) ==
  [t \in Titles |->
     CASE t = SRC1 -> s1
       [] t = SRC2 -> s2
       [] t = INTERESTED -> si
       [] OTHER -> IF si = << >> THEN << >> ELSE <<Hdr>>]

DataRows(sheet) == IF Len(sheet) = 0 THEN 0 ELSE Len(sheet) - 1

InitStores ==
  {Store(s1, s2, si) : <<s1, s2, si>> \in
     {x \in Src1Sheets \X Src2Sheets \X InterestedSheets :
        DataRows(x[1]) + DataRows(x[2]) + DataRows(x[3]) <= MaxRecords}}

Init ==
  /\ sheets \in InitStores
  /\ exists = {t \in Titles : sheets[t] # << >>}
  /\ clock = 1
  /\ runs = 0
  /\ proc = [p \in Procs |-> InitLocal]
  /\ pre = sheets
  /\ edited = {}

\* one engine at a time: runMigrations, then runMsnCheckboxCopy, any step of
\* which may fail; then the next invocation
Next ==
  \/ StartRun(1)
  \/ runMigrations(1)
  \/ CallMsn(1)
  \/ runMsnCheckboxCopy(1)
  \/ Abort(1)

Spec == Init /\ [][Next]_vars

\* a single invocation of the engine
NextOnce ==
  \/ StartOnce(1)
  \/ runMigrations(1)
  \/ CallMsn(1)
  \/ runMsnCheckboxCopy(1)
  \/ Abort(1)

SpecOnce == Init /\ [][NextOnce]_vars

(************************* overlapping invocations *************************)
\* two invocations of runMigrations on one spreadsheet whose category sheet
\* holds two data rows; their remote calls interleave in any order
OverlapStores ==
  {Store(s1, <<Hdr>>, <<Hdr>>) : s1 \in {s \in Src1Sheets : DataRows(s) = 2}}

InitOverlap ==
  /\ sheets \in OverlapStores
  /\ exists = Titles
  /\ clock = 1
  /\ runs = 2
  /\ proc = [p \in Procs |-> [InitLocal EXCEPT !.pc = "m_meta"]]
  /\ pre = sheets
  /\ edited = {}

NextOverlap == \E p \in Procs : runMigrations(p)

SpecOverlap == InitOverlap /\ [][NextOverlap]_vars

(****************************** outside edits ******************************)
\* data rows of the category sheet in InitEdit
MaxEditRows == 2

SheetIdx(title) == CHOOSE k \in 1..Len(STATUS_SHEETS) : STATUS_SHEETS[k] = title

\* the run has read the rows of title (index.js:301), from which the checksums
\* of its plan are taken
SnapshotTaken(l, title) ==
  \/ l.pc \in {"m_idcol", "m_plan", "m_flush"} /\ l.si >= SheetIdx(title)
  \/ l.pc = "m_rows" /\ l.si > SheetIdx(title)
  \/ l.pc \in {"m_copy", "m_meta2", "m_haveI", "m_haveM", "m_verify", "m_delete", "m_end"}

\* the run has re-read the rows of title for verification (index.js:444)
Reread(l, title) ==
  \/ l.pc \in {"m_delete", "m_end"}
  \/ /\ l.pc = "m_verify"
     /\ \E j \in 1..Len(l.perSheetDeletePlan) :
          l.perSheetDeletePlan[j].title = title /\ j < l.vi

Stage(l, title) ==
  IF ~SnapshotTaken(l, title) THEN "before"
  ELSE IF ~Reread(l, title) THEN "planned"
  ELSE IF l.pc # "m_end" THEN "verified"
  ELSE "after"

\* another writer changes the date cell (column A) of a data row of the
\* category sheet; the row is remembered by its channel handle
OutsideEdit ==
  \E r \in 2..Len(sheets[SRC1]) :
    /\ Cardinality(edited) < MaxEdits
    /\ sheets[SRC1][r].a # "edited"
    /\ sheets' = [sheets EXCEPT ![SRC1][r].a = "edited"]
    /\ edited' = edited \cup {[title |-> SRC1, row |-> r, handle |-> sheets[SRC1][r].c,
                               stage |-> Stage(proc[1], SRC1)]}
    /\ UNCHANGED <<exists, clock, runs, proc, pre>>

InitEdit ==
  /\ sheets \in {Store(s1, <<Hdr>>, <<Hdr>>) :
                   s1 \in {s \in Src1Sheets : DataRows(s) >= 1 /\ DataRows(s) <= MaxEditRows}}
  /\ exists = Titles
  /\ clock = 1
  /\ runs = 1
  /\ proc = [p \in Procs |-> [InitLocal EXCEPT !.pc = IF p = 1 THEN "m_meta" ELSE "idle"]]
  /\ pre = sheets
  /\ edited = {}

NextEdit == runMigrations(1) \/ OutsideEdit

SpecEdit == InitEdit /\ [][NextEdit]_vars

(******************************** claims ***********************************)
\* the identity column of a sheet as the store holds it (T2:T)
StoreIds(store, title) == {store[title][r].t : r \in 2..Len(store[title])} \ {""}

\* the items of the delete plan of process p, each with its source sheet
PlanItems(p) ==
  UNION {{[title |-> proc[p].perSheetDeletePlan[j].title,
           item |-> proc[p].perSheetDeletePlan[j].list[n]] :
            n \in 1..Len(proc[p].perSheetDeletePlan[j].list)} :
         j \in 1..Len(proc[p].perSheetDeletePlan)}

Requests(s) == {s[j] : j \in 1..Len(s)}

\* the content that makes a row the same record: date, channel and status
SameRecord(x, y) == x.a = y.a /\ x.c = y.c /\ x.h = y.h /\ x.k = y.k

DestSheets == {INTERESTED, MEETING, MSN_DEST_SHEET}

\* the record that was row r of sheet t when the run started is still in its
\* source sheet or in a destination sheet
Present(t, r) ==
  \E t2 \in {t} \cup DestSheets : \E r2 \in 1..Len(sheets[t2]) :
    SameRecord(sheets[t2][r2], pre[t][r])

Records ==
  UNION {{<<t, r>> : r \in {x \in 2..Len(pre[t]) : pre[t][x] # EmptyRow}} : t \in Titles}

\* C3: when the delete batch is about to be submitted, every row it names has
\* a planned id that is the id the row holds in the store and that is in the
\* identity column of its destination sheet in the store, which by then holds
\* the acknowledged copies.
C3_DestinationIdentityGuard ==
  \A p \in Procs :
    proc[p].pc \in {"m_delete", "x_delete"} =>
      \A req \in Requests(proc[p].deleteRequests) :
        \E pi \in PlanItems(p) :
          /\ pi.title = req.dst
          /\ pi.item.rowIdx1 = req.dstRow
          /\ pi.item.id # ""
          /\ RowAt(sheets[req.dst], req.dstRow).t = pi.item.id
          /\ pi.item.id \in StoreIds(sheets, pi.item.dest)

\* a delete batch of runMigrations with at least one request is about to be sent
C3_Witness ==
  proc[1].pc = "m_delete" /\ Len(proc[1].deleteRequests) > 0

\* the rows of a sheet that are not at a position of P, in their order
RECURSIVE Keep(_, _, _)
Keep(sheet, P, r) ==
  IF r > Len(sheet) THEN << >>
  ELSE (IF r \in P THEN << >> ELSE <<sheet[r]>>) \o Keep(sheet, P, r + 1)
Without(sheet, P) == Trim(Keep(sheet, P, 1))

PositionsOf(reqs, t) == {q.dstRow : q \in {x \in Requests(reqs) : x.dst = t}}

DescendingPerSheet(reqs) ==
  \A i, j \in 1..Len(reqs) :
    i < j /\ reqs[i].dst = reqs[j].dst => reqs[i].dstRow > reqs[j].dstRow

\* C10: the delete requests of each sheet are in strictly descending row
\* order, and the step that applies the batch removes from every sheet exactly
\* the rows at the requested positions, the other rows keeping their order.
C10_DeleteOrdering ==
  [][\A p \in Procs :
       (proc[p].pc \in {"m_delete", "x_delete"} /\ proc'[p].pc \in {"m_end", "done"}) =>
         /\ DescendingPerSheet(proc[p].deleteRequests)
         /\ \A t \in Titles :
              sheets'[t] = Without(sheets[t], PositionsOf(proc[p].deleteRequests, t))]_vars

\* a batch that deleted two rows of one sheet with a surviving row between them
C10_Witness ==
  /\ proc[1].pc = "m_end"
  /\ \E q1, q2 \in Requests(proc[1].deleteRequests) :
       /\ q1.dst = q2.dst
       /\ \E r \in (q2.dstRow + 1)..(q1.dstRow - 1) :
            r \notin PositionsOf(proc[1].deleteRequests, q1.dst)

\* C1: when a run has ended, normally or aborted, every record that a sheet
\* held when the run started is still in that sheet or in a destination sheet.
C1_NoLoss ==
  Ended(proc[1].pc) => \A rec \in Records : Present(rec[1], rec[2])

\* C2: when two overlapping invocations of runMigrations have both returned,
\* every record of the initial store is still in its sheet or in a destination
\* sheet.
C2_OverlapNoLoss ==
  (\A p \in Procs : proc[p].pc = "m_end") => \A rec \in Records : Present(rec[1], rec[2])

\* C5: when a run has ended, no two data rows of the Interested sheet or of
\* the Meeting Set sheet hold the same non-empty id.
C5_NoDuplicateIdentity ==
  Ended(proc[1].pc) =>
    \A t \in {INTERESTED, MEETING} : \A r1, r2 \in 2..Len(sheets[t]) :
      (r1 # r2 /\ sheets[t][r1].t # "") => sheets[t][r1].t # sheets[t][r2].t

\* C6: an invocation of the engine that follows a completed invocation plans
\* no copy request and no delete request.
C6_Idempotence ==
  proc[1].after = "done" =>
    proc[1].copyRequests = << >> /\ proc[1].deleteRequests = << >>

\* C7: when runMigrations has returned, every row that matched a rule and had
\* no id when the run started holds an id that is in its destination sheet,
\* and the row is no longer in the sheet it was in.
C7_MoveInOneRun ==
  proc[1].pc = "m_end" =>
    \A t \in Titles : \A r \in 2..Len(pre[t]) :
      (t \in Requests(STATUS_SHEETS) /\ Classify(pre[t][r]) # "" /\ pre[t][r].t = "") =>
        ~\E r2 \in 2..Len(sheets[t]) : SameRecord(sheets[t][r2], pre[t][r])

\* C8: the copy requests of one run of runMigrations have pairwise different
\* (destination sheet, destination row) targets.
C8_NoCopyCollision ==
  \A i, j \in 1..Len(proc[1].copyRequests) :
    (/\ i # j
     /\ proc[1].copyRequests[i].kind = "copyPaste"
     /\ proc[1].copyRequests[j].kind = "copyPaste") =>
      <<proc[1].copyRequests[i].dst, proc[1].copyRequests[i].dstRow>> #
        <<proc[1].copyRequests[j].dst, proc[1].copyRequests[j].dstRow>>

\* C9: every copy request of runMigrations targets a row of the destination
\* sheet that held nothing when the run started.
C9_AppendOnly ==
  \A q \in Requests(proc[1].copyRequests) :
    q.kind = "copyPaste" => RowAt(pre[q.dst], q.dstRow) = EmptyRow

\* the row of the category sheet with channel handle h is no longer in it
DeletedFromSource(h) == ~\E r \in 2..Len(sheets[SRC1]) : sheets[SRC1][r].c = h

\* the item of the delete plan of process 1 for row r of the category sheet
PlannedAt(r) == {pi \in PlanItems(1) : pi.title = SRC1 /\ pi.item.rowIdx1 = r}

InDeleteStage(p) ==
  proc[p].pc \in {"m_meta2", "m_haveI", "m_haveM", "m_verify", "m_delete",
                  "x_have", "x_meta2", "x_verify", "x_delete"}

\* C11: a run that is in its delete stage has had its copy batch, if it
\* planned any copy, acknowledged; a run that plans a delete request planned a
\* copy; and the step that follows a pending copy batch is either the
\* acknowledged batch or the abort of the run, which changes no sheet and
\* leaves no delete request.
C11_CopyBeforeDelete ==
  /\ [](\A p \in Procs :
          /\ InDeleteStage(p) => (proc[p].copied \/ proc[p].copyRequests = << >>)
          /\ proc[p].deleteRequests # << >> => proc[p].copied
          /\ proc[p].pc = "aborted" => proc[p].deleteRequests = << >>)
  /\ [][\A p \in Procs :
          (proc[p].pc \in {"m_copy", "x_copy"} /\ proc'[p].pc # proc[p].pc) =>
             \/ proc'[p].pc \in {"m_meta2", "x_have"} /\
                sheets' = batchUpdate(sheets, proc[p].copyRequests)
             \/ proc'[p].pc = "aborted" /\ sheets' = sheets]_vars

\* a delete batch with a request is about to be sent after an acknowledged
\* copy batch
C11_Witness ==
  /\ proc[1].pc = "m_delete"
  /\ proc[1].deleteRequests # << >>
  /\ proc[1].copied

(***************************** a retried engine ****************************)
\* an invocation of the engine and, after it has ended or failed, a second one
StartTwice(p) == StartRunUpTo(p, 2)

NextTwice ==
  \/ StartTwice(1)
  \/ runMigrations(1)
  \/ CallMsn(1)
  \/ runMsnCheckboxCopy(1)
  \/ Abort(1)

\* data rows in the workbook when the engine is invoked twice
MaxRetryRecords == 2

InitTwice ==
  /\ Init
  /\ DataRows(sheets[SRC1]) + DataRows(sheets[SRC2]) + DataRows(sheets[INTERESTED])
       <= MaxRetryRecords

SpecTwice == InitTwice /\ [][NextTwice]_vars

\* the ids that generateUniqueId produces in the model
MintedIds == {IdStr(n) : n \in 1..9}

\* the identity write-back that process p is about to send targets only
\* cells that are empty in the store
WritesOnlyEmptyCells(p) ==
  proc[p].pc \in {"m_flush", "x_flush"} =>
    \A j \in 1..Len(proc[p].idWrites) :
      LET title == IF proc[p].pc = "m_flush" THEN STATUS_SHEETS[proc[p].si]
                   ELSE WorkbookOrder[proc[p].si]
      IN  RowAt(sheets[title], proc[p].idWrites[j][1]).t = ""

\* C12: over sequential runs, an identity write-back never targets a cell that
\* holds an identity, and a record (told by its channel handle) that holds an
\* identity holds, after every step, that same identity wherever it has one.
C12_IdentityStability ==
  /\ [](\A p \in Procs : WritesOnlyEmptyCells(p))
  /\ [][\A t \in Titles : \A r \in 1..Len(sheets[t]) :
          (sheets[t][r].t # "" /\ sheets[t][r].c # "") =>
            \A t2 \in Titles : \A r2 \in 1..Len(sheets'[t2]) :
              (sheets'[t2][r2].c = sheets[t][r].c /\ sheets'[t2][r2].t # "") =>
                 sheets'[t2][r2].t = sheets[t][r].t]_vars

\* a second invocation plans a row with the identity that the first
\* invocation generated and stored for it
C12_Witness ==
  /\ proc[1].after \in {"done", "aborted"}
  /\ proc[1].pc = "m_delete"
  /\ \E pi \in PlanItems(1) :
       /\ pi.item.id \in MintedIds
       /\ pre[pi.title][pi.item.rowIdx1].t = pi.item.id

\* C13: with two overlapping invocations, a row of a sheet that holds an
\* identity holds no other identity after any step, for as long as the record
\* is in that sheet.
C13_NoDoubleMinting ==
  [][\A t \in Titles : \A r \in 2..Len(sheets[t]) :
       sheets[t][r].t # "" =>
         \A r2 \in 2..Len(sheets'[t]) :
           (sheets'[t][r2].c = sheets[t][r].c /\ sheets'[t][r2].t # "") =>
              sheets'[t][r2].t = sheets[t][r].t]_vars

\* the rows of the store that hold an identity, as <<sheet, row>>
IdentifiedCells ==
  UNION {{<<t, r>> : r \in {x \in 1..Len(sheets[t]) : sheets[t][x].t # ""}} : t \in Titles}

\* C14: two rows of the store that hold the same identity are rows of the
\* same record (they have the same channel handle).
C14_IdentityUniqueness ==
  \A x, y \in IdentifiedCells :
    sheets[x[1]][x[2]].t = sheets[y[1]][y[2]].t =>
      sheets[x[1]][x[2]].c = sheets[y[1]][y[2]].c

\* the planned rows of process p whose identity was assigned in this run
NewlyAssigned(p) == {pi \in PlanItems(p) : pre[pi.title][pi.item.rowIdx1].t = ""}

\* the sheet whose identity write-back process p is about to send
FlushTitle(p) ==
  IF proc[p].pc = "m_flush" THEN STATUS_SHEETS[proc[p].si] ELSE WorkbookOrder[proc[p].si]

\* C15: when a run is about to submit its copy batch or its delete batch,
\* every planned row whose identity was assigned in this run holds that
\* identity in the store; and the write-back step of a sheet writes all the
\* identities staged for that sheet at once and changes no other sheet.
C15_IdentityFlushOrdering ==
  /\ [](\A p \in Procs :
          proc[p].pc \in {"m_copy", "x_copy", "m_delete", "x_delete"} =>
            \A pi \in NewlyAssigned(p) :
              RowAt(sheets[pi.title], pi.item.rowIdx1).t = pi.item.id)
  /\ [][\A p \in Procs :
          (proc[p].pc \in {"m_flush", "x_flush"} /\ proc'[p].pc \notin {proc[p].pc, "aborted"}) =>
             /\ \A j \in 1..Len(proc[p].idWrites) :
                  RowAt(sheets'[FlushTitle(p)], proc[p].idWrites[j][1]).t = proc[p].idWrites[j][2]
             /\ \A t \in Titles \ {FlushTitle(p)} : sheets'[t] = sheets[t]]_vars

\* the copy batch is about to be submitted for a plan that holds a row whose
\* identity was assigned in this run
C15_Witness ==
  /\ proc[1].pc = "m_copy"
  /\ NewlyAssigned(1) # {}

(****************************** classification *****************************)
\* the texts of the status columns H and K of the row that is classified
StatusTexts ==
  {"", "Interested", "Not Interested", "Meeting Set", "interested - MEETING SET",
   "Meeting", "Set", "NOT", "Disinterested", "Follow up"}

\* the sheets the classified row may be in
ClassifySheets == {SRC1, SRC2, INTERESTED, MEETING}

\* one data row with any status texts and any checkbox, in any scanned sheet
ClassifyRow(f, h, k) == Row(DATE, "@a", f, h, k, "id-x")

ClassifyStore(t, row) == [u \in Titles |-> IF u = t THEN <<Hdr, row>> ELSE <<Hdr>>]

InitClassify ==
  /\ sheets \in {ClassifyStore(t, ClassifyRow(f, h, k)) :
                   t \in ClassifySheets, f \in {"", "TRUE"},
                   h \in StatusTexts, k \in StatusTexts}
  /\ exists = Titles
  /\ clock = 1
  /\ runs = 1
  /\ proc = [p \in Procs |-> [InitLocal EXCEPT !.pc = IF p = 1 THEN "m_meta" ELSE "idle"]]
  /\ pre = sheets
  /\ edited = {}

NextClassify == runMigrations(1)

SpecClassify == InitClassify /\ [][NextClassify]_vars

\* the text s, read from position i on, holds the text w somewhere
RECURSIVE HoldsFrom(_, _, _)
HoldsFrom(s, w, i) ==
  IF i + Len(w) - 1 > Len(s) THEN FALSE
  ELSE IF \A j \in 1..Len(w) : s[i + j - 1] = w[j] THEN TRUE
  ELSE HoldsFrom(s, w, i + 1)

Holds(s, w) == HoldsFrom(s, w, 1)

\* the text of columns H and K, joined by a space, in lower case
LowerHK(h, k) ==
  LET s == Chars(h) \o <<32>> \o Chars(k)
  IN  [i \in 1..Len(s) |-> IF s[i] \in 65..90 THEN s[i] + 32 ELSE s[i]]

\* the destination that the two texts call for
ExpectedDest(h, k) ==
  IF Holds(LowerHK(h, k), Chars("meeting set")) THEN "Meeting Set"
  ELSE IF Holds(LowerHK(h, k), Chars("interested")) /\
          ~Holds(LowerHK(h, k), Chars("not interested"))
       THEN "Interested"
  ELSE ""

\* the sheet and the data row that the run classifies
ClassifiedSheet == CHOOSE t \in ClassifySheets : Len(pre[t]) = 2
ClassifiedRow == pre[ClassifiedSheet][2]

\* C16: when runMigrations has planned all sheets, the destination it chose
\* for the row is the one called for by the lower-cased text of columns H
\* and K: the row's id has entered the id cache of that destination and of
\* no other, every copy request targets that destination, and a row in a
\* sheet other than its destination has exactly one copy request; the sheet
\* and the other columns play no part.
C16_Classification ==
  proc[1].pc = "m_copy" =>
    LET dest == ExpectedDest(ClassifiedRow.h, ClassifiedRow.k)
    IN  /\ ClassifiedSheet # INTERESTED =>
             ("id-x" \in proc[1].interestedIds) = (dest = "Interested")
        /\ ClassifiedSheet # MEETING =>
             ("id-x" \in proc[1].meetingIds) = (dest = "Meeting Set")
        /\ \A q \in Requests(proc[1].copyRequests) : q.dst = dest
        /\ Len(proc[1].copyRequests) =
             IF dest = "" \/ dest = ClassifiedSheet THEN 0 ELSE 1

\* a row whose status texts match both rules has been planned for Meeting Set
C16_Witness ==
  /\ proc[1].pc = "m_copy"
  /\ Holds(LowerHK(ClassifiedRow.h, ClassifiedRow.k), Chars("meeting set"))
  /\ Holds(LowerHK(ClassifiedRow.h, ClassifiedRow.k), Chars("interested"))
  /\ \E q \in Requests(proc[1].copyRequests) : q.dst = "Meeting Set"

(******************** withBackoff (webhook/scripts/stop_watch.sh) **********)
\* largest maxAttempts a caller passes (the default is 6, stop_watch.sh:51)
MaxAttempts == 6

\* Math.floor(Math.random() * 300), stop_watch.sh:74: the draws of the model
Jitters == {0, 299}

RECURSIVE Pow2(_)
Pow2(n) == IF n = 0 THEN 1 ELSE 2 * Pow2(n - 1)

Min(a, b) == IF a <= b THEN a ELSE b

\* the delay with no cap
delayOfUncapped(attempt, jitter) == 500 * Pow2(attempt) + jitter

\* stop_watch.sh:73-74
delayOf(attempt, jitter) == Min(30000, 500 * Pow2(attempt)) + jitter

\* the test that ends the retries is left out
givesUpNever(e, attempt, maxAttempts) == ~retryable(e)

\* stop_watch.sh:68
givesUp(e, attempt, maxAttempts) == ~retryable(e) \/ attempt >= maxAttempts - 1

\* the locals of one call of withBackoff(fn, label, maxAttempts); calls counts
\* the calls of fn, err is the error of the last failed call
BackoffLocal(maxAttempts) ==
  [pc |-> "wb_try", maxAttempts |-> maxAttempts, attempt |-> 0, calls |-> 0,
   err |-> NoError, delay |-> 0]

\* stop_watch.sh:55-56: fn is called and succeeds
WbReturn(p) ==
  /\ proc[p].pc = "wb_try"
  /\ Set(p, [proc[p] EXCEPT !.pc = "wb_returned", !.calls = proc[p].calls + 1])
  /\ UNCHANGED <<sheets, exists, clock, runs, pre, edited>>

\* stop_watch.sh:55-77: fn is called and throws e
WbCatch(p) ==
  /\ proc[p].pc = "wb_try"
  /\ \E e \in Errors \ {NoError} : \E jitter \in Jitters :
       /\ givesUp(e, proc[p].attempt, proc[p].maxAttempts) => jitter = 0
       /\ Set(p, IF givesUp(e, proc[p].attempt, proc[p].maxAttempts)
                 THEN [proc[p] EXCEPT !.pc = "wb_thrown", !.err = e,
                                      !.calls = proc[p].calls + 1]
                 ELSE [proc[p] EXCEPT !.pc = "wb_sleep", !.err = e,
                                      !.calls = proc[p].calls + 1,
                                      !.delay = delayOf(proc[p].attempt, jitter)])
  /\ UNCHANGED <<sheets, exists, clock, runs, pre, edited>>

\* stop_watch.sh:78-79: the sleep is over
WbSleep(p) ==
  /\ proc[p].pc = "wb_sleep"
  /\ clock' = clock + proc[p].delay
  /\ Set(p, [proc[p] EXCEPT !.pc = "wb_try", !.attempt = proc[p].attempt + 1])
  /\ UNCHANGED <<sheets, exists, runs, pre, edited>>

withBackoff(p) == WbReturn(p) \/ WbCatch(p) \/ WbSleep(p)

InitBackoff ==
  /\ sheets = [t \in Titles |-> <<Hdr>>]
  /\ exists = Titles
  /\ clock = 0
  /\ runs = 1
  /\ \E m \in 1..MaxAttempts :
       proc = [p \in Procs |-> IF p = 1 THEN BackoffLocal(m) ELSE InitLocal]
  /\ pre = sheets
  /\ edited = {}

NextBackoff == withBackoff(1)

SpecBackoff == InitBackoff /\ [][NextBackoff]_vars

\* the promise of fn settles and the timer of sleep fires
FairSpecBackoff == SpecBackoff /\ WF_vars(NextBackoff)

WbEnded(p) == proc[p].pc \in {"wb_returned", "wb_thrown"}

\* C17: withBackoff never calls fn more than maxAttempts times; once it has
\* returned or thrown it takes no further step; when it throws a retryable
\* error it has called fn exactly maxAttempts times; and it always returns or
\* throws.
C17_BoundedRetry ==
  /\ [](proc[1].calls <= proc[1].maxAttempts)
  /\ [](proc[1].pc = "wb_returned" => proc[1].calls = proc[1].attempt + 1)
  /\ []((proc[1].pc = "wb_thrown" /\ retryable(proc[1].err)) =>
          proc[1].calls = proc[1].maxAttempts)
  /\ [][~WbEnded(1)]_vars
  /\ <>WbEnded(1)

\* every one of at least three calls failed with a retryable error and the
\* last error was thrown
C17_Witness ==
  /\ proc[1].pc = "wb_thrown"
  /\ retryable(proc[1].err)
  /\ proc[1].maxAttempts >= 3
  /\ proc[1].calls = proc[1].maxAttempts

(************************* failing remote calls ****************************)
\* one invocation of the engine of index.js, or one call of withBackoff
InitFailure == Init \/ InitBackoff

NextFailure == NextOnce \/ NextBackoff

SpecFailure == InitFailure /\ [][NextFailure]_vars

\* errors that are permanent: a client error status and no text that tells of
\* a rate limit, a timeout or a connection reset
PermanentErrors ==
  {e \in Errors : codeOf(e) \in {400, 403, 404} /\ e.message \in {"", "Bad Request"}}

\* C18: a call of fn that fails with a permanent error makes withBackoff throw
\* that error at once, and withBackoff takes no step after it has thrown; a
\* remote call of the engine that fails with a permanent error ends the run
\* with exit code 1, with the sheets as they were and with no delete request,
\* and the run takes no step afterwards.
C18_PermanentErrorsNotRetried ==
  /\ [][(/\ proc[1].pc = "wb_try"
         /\ proc'[1].pc # "wb_returned"
         /\ proc'[1].err \in PermanentErrors) =>
           /\ proc'[1].pc = "wb_thrown"
           /\ proc'[1].calls = proc[1].calls + 1]_vars
  /\ [][proc[1].pc \notin {"wb_thrown", "aborted"}]_vars
  /\ [][(proc[1].pc # "aborted" /\ proc'[1].err \in PermanentErrors
         /\ proc'[1].pc \notin WbPcs) =>
           /\ proc'[1].pc = "aborted"
           /\ proc'[1].exitCode = 1
           /\ proc'[1].deleteRequests = << >>
           /\ sheets' = sheets]_vars
  /\ [](proc[1].pc \notin WbPcs => (proc[1].exitCode = 1 <=> proc[1].pc = "aborted"))

\* withBackoff has thrown a permanent error that followed a retried one
C18_Witness ==
  /\ proc[1].pc = "wb_thrown"
  /\ proc[1].err \in PermanentErrors
  /\ proc[1].attempt = 1


\* ---------------------------------------------------------------------------
\* transient failures of the engine's remote calls
\* ---------------------------------------------------------------------------

\* a rate limit (429) or a server error (500, 503) raised by a call
TransientErrors ==
  {e \in Errors : e.code \in {429, 500, 503} \/ e.status = 429}

\* C19: a rate-limit or server error raised once by a remote call of
\* runMigrations or runMsnCheckboxCopy does not abort the run: no run ends
\* aborted by such an error.
C19_TransientTolerated ==
  \A p \in Procs :
    proc[p].pc = "aborted" => proc[p].err \notin TransientErrors


\* ---------------------------------------------------------------------------
\* retained records over repeated invocations
\* ---------------------------------------------------------------------------

\* row r of sheet t of the store is Retained: it matches a rule for another
\* sheet, its id was generated by an earlier invocation and is in the id column
\* of that destination, and the row is still in its source
Retained(store, t, r) ==
  LET dest == Classify(store[t][r])
  IN  /\ dest # ""
      /\ dest # t
      /\ store[t][r].t \in MintedIds
      /\ store[t][r].t \in StoreIds(store, dest)

\* C20: when an invocation that follows a completed invocation has completed,
\* every record that was Retained when it started is no longer in its source
\* sheet, or at least the invocation has changed the workbook (an invocation
\* that changes nothing leaves every later invocation the same workbook to
\* read, and the record in its source for good).
C20_RetentionNotPermanent ==
  \A p \in Procs :
    (proc[p].pc = "done" /\ proc[p].after = "done") =>
      \A t \in Requests(STATUS_SHEETS) : \A r \in 2..Len(pre[t]) :
        Retained(pre, t, r) =>
          \/ ~\E r2 \in 2..Len(sheets[t]) : SameRecord(sheets[t][r2], pre[t][r])
          \/ sheets # pre


\* ---------------------------------------------------------------------------
\* runMsnCheckboxCopy over repeated invocations
\* ---------------------------------------------------------------------------

\* the rows of 'MSN Creators' that hold the content of the record x
MsnCopies(x) ==
  {r \in 2..Len(sheets[MSN_DEST_SHEET]) : SameRecord(sheets[MSN_DEST_SHEET][r], x)}

\* C21: when an invocation that follows a completed invocation has completed,
\* 'MSN Creators' holds the content of a ticked record (column F true, a
\* channel in column C) in at most one row.
C21_MsnExactlyOneCopy ==
  (proc[1].pc = "done" /\ proc[1].after = "done") =>
    \A r \in 2..Len(sheets[MSN_DEST_SHEET]) :
      LET x == sheets[MSN_DEST_SHEET][r]
      IN  (isTrue(x.f) /\ x.c # "") => Cardinality(MsnCopies(x)) <= 1


\* ---------------------------------------------------------------------------
\* what the delete decision of runMigrations reads
\* ---------------------------------------------------------------------------

\* the positions of runMigrations up to the commit of the copy batch
BeforeCopyAck ==
  {"m_meta", "m_ensureI", "m_metaI", "m_ensureM", "m_metaM", "m_idsI", "m_idsM",
   "m_rows", "m_idcol", "m_plan", "m_flush", "m_copy"}

\* the ids of the planner's in-memory sets of process p
PlannerIds(p, dest) ==
  IF dest = INTERESTED THEN proc[p].interestedIds ELSE proc[p].meetingIds

\* the delete requests that a step of process p adds
AddedDeletes(p) ==
  {proc'[p].deleteRequests[j] :
     j \in (Len(proc[p].deleteRequests) + 1)..Len(proc'[p].deleteRequests)}

\* C22: up to the acknowledgement of the copy batch, runMigrations has read no
\* verification set and has admitted no deletion; each verification set is, at
\* the step that reads it, the identity column of the destination as the store
\* then holds it; and a row is admitted for deletion only if its planned id is
\* in the destination's identity column of the store and the source row, as
\* the store holds it at that step, has the planned checksum.
C22_VerificationFreshness ==
  /\ [](\A p \in Procs :
          proc[p].pc \in BeforeCopyAck =>
            /\ proc[p].have[INTERESTED] = {}
            /\ proc[p].have[MEETING] = {}
            /\ proc[p].deleteRequests = << >>)
  /\ [][\A p \in Procs :
          /\ (proc[p].pc = "m_haveI" /\ proc'[p].pc = "m_haveM") =>
                proc'[p].have[INTERESTED] = StoreIds(sheets, INTERESTED)
          /\ (proc[p].pc = "m_haveM" /\ proc'[p].pc \in {"m_verify", "m_delete"}) =>
                proc'[p].have[MEETING] = StoreIds(sheets, MEETING)
          /\ (proc[p].pc = "m_verify") =>
                \A req \in AddedDeletes(p) :
                  \E pi \in PlanItems(p) :
                    /\ pi.title = req.dst
                    /\ pi.item.rowIdx1 = req.dstRow
                    /\ pi.item.id \in StoreIds(sheets, pi.item.dest)
                    /\ simpleRowChecksum(RowValues(RowAt(sheets[req.dst], req.dstRow)))
                         = pi.item.checksum]_vars

\* the delete batch is about to be sent; an id that the planner added to its
\* in-memory set is not in the destination after the copy batch, the set read
\* for verification does not hold it, and its row is in no delete request
C22_Witness ==
  /\ proc[1].pc = "m_delete"
  /\ proc[1].copied
  /\ \E pi \in PlanItems(1) :
       /\ pi.item.id \in PlannerIds(1, pi.item.dest)
       /\ pi.item.id \notin StoreIds(sheets, pi.item.dest)
       /\ pi.item.id \notin proc[1].have[pi.item.dest]
       /\ \A req \in Requests(proc[1].deleteRequests) :
            ~(req.dst = pi.title /\ req.dstRow = pi.item.rowIdx1)


\* ---------------------------------------------------------------------------
\* the classification of errors by withBackoff
\* ---------------------------------------------------------------------------

\* a rate limit (429, or a rate-limit reason in the message), a server error
\* (500..599), a connection reset or a timeout
TransientClass(e) ==
  \/ codeOf(e) = 429
  \/ codeOf(e) \in 500..599
  \/ e.message \in {"rateLimitExceeded", "userRateLimitExceeded",
                    "ETIMEDOUT", "read ECONNRESET"}

\* C23: a call of fn that fails before the last attempt is followed by a sleep
\* and a retry if the error is a rate limit, a 5xx server error, a connection
\* reset or a timeout, and by a throw if it is any other error.
C23_TransientClassification ==
  /\ proc[1].pc = "wb_sleep" => TransientClass(proc[1].err)
  /\ (proc[1].pc = "wb_thrown" /\ proc[1].attempt < proc[1].maxAttempts - 1) =>
        ~TransientClass(proc[1].err)


\* ---------------------------------------------------------------------------
\* rows that match nothing
\* ---------------------------------------------------------------------------

MigrationPcs == BeforeCopyAck \cup {"m_meta2", "m_haveI", "m_haveM", "m_verify", "m_delete"}
MsnPcs ==
  {"x_meta", "x_ensure", "x_metaD", "x_ids", "x_bottom", "x_rows", "x_idcol",
   "x_plan", "x_flush", "x_copy", "x_have", "x_meta2", "x_verify", "x_delete"}

\* the row classifies to no destination in runMigrations
NoStatusMatch(row) == ExpectedDest(row.h, row.k) = ""
\* the row's checkbox is not true for runMsnCheckboxCopy
NotTicked(row) == row.f \notin {"TRUE", "true", "True"}

\* the rows of the scanned sheets that match nothing for the function that
\* process p is in
NoMatchRows(p) ==
  IF proc[p].pc \in MigrationPcs
  THEN UNION {{<<t, r>> : r \in {j \in 2..Len(sheets[t]) : NoStatusMatch(sheets[t][j])}} :
                t \in Requests(STATUS_SHEETS)}
  ELSE IF proc[p].pc \in MsnPcs
  THEN UNION {{<<t, r>> : r \in {j \in 2..Len(sheets[t]) : NotTicked(sheets[t][j])}} :
                t \in Titles \ MSN_SKIP_SET}
  ELSE {}

\* C24: in runMigrations a row whose status texts match no rule, and in
\* runMsnCheckboxCopy a row whose checkbox is not true, is the target of no
\* staged identity write, the source of no copy request and no pasted data,
\* and the target of no planned or requested deletion; and every step of the
\* function leaves such a row in its sheet with the cells it had.
C24_NoMatchUntouched ==
  /\ [](\A p \in Procs :
          /\ proc[p].pc \in {"m_plan", "m_flush"} =>
               /\ \A w \in Requests(proc[p].idWrites) : ~NoStatusMatch(proc[p].rows[w[1] - 1])
               /\ \A d \in Requests(proc[p].toMaybeDelete) :
                    ~NoStatusMatch(proc[p].rows[d.rowIdx1 - 1])
          /\ proc[p].pc \in {"x_plan", "x_flush"} =>
               /\ \A w \in Requests(proc[p].idWrites) :
                    ~NotTicked(proc[p].rows[w[1] - MSN_HEADER_ROW])
               /\ \A d \in Requests(proc[p].toMaybeDelete) :
                    ~NotTicked(proc[p].rows[d.rowIdx1 - MSN_HEADER_ROW])
          /\ proc[p].pc \in MigrationPcs =>
               /\ \A q \in Requests(proc[p].copyRequests) :
                    ~NoStatusMatch(RowAt(pre[q.src], q.srcRow))
               /\ \A pi \in PlanItems(p) :
                    ~NoStatusMatch(RowAt(pre[pi.title], pi.item.rowIdx1))
               /\ \A q \in Requests(proc[p].deleteRequests) :
                    ~NoStatusMatch(RowAt(pre[q.dst], q.dstRow))
          /\ proc[p].pc \in MsnPcs =>
               /\ \A q \in Requests(proc[p].copyRequests) :
                    q.kind = "pasteData" => ~NotTicked(RowOfValues(q.data, EmptyRow))
               /\ \A pi \in PlanItems(p) :
                    ~NotTicked(RowAt(sheets[pi.title], pi.item.rowIdx1))
               /\ \A q \in Requests(proc[p].deleteRequests) :
                    ~NotTicked(RowAt(sheets[q.dst], q.dstRow)))
  /\ [][\A p \in Procs : \A x \in NoMatchRows(p) :
          sheets[x[1]][x[2]] # EmptyRow =>
            \E r2 \in 2..Len(sheets'[x[1]]) : sheets'[x[1]][r2] = sheets[x[1]][x[2]]]_vars

\* the engine has ended; it wrote identities, copied and deleted rows, and a
\* row that matches no rule and is not ticked is in its sheet, with no identity
C24_Witness ==
  /\ proc[1].pc = "done"
  /\ sheets # pre
  /\ \E r \in 2..Len(sheets[SRC1]) : sheets[SRC1][r].t \in MintedIds
  /\ Len(sheets[SRC1]) < Len(pre[SRC1])
  /\ \E r \in 2..Len(sheets[SRC2]) :
       /\ NoStatusMatch(sheets[SRC2][r])
       /\ NotTicked(sheets[SRC2][r])
       /\ sheets[SRC2][r].t = ""
       /\ sheets[SRC2][r] = pre[SRC2][r]


(************************ runMsnCheckboxCopy alone *************************)
\* data rows of the first category sheet when runMsnCheckboxCopy runs alone
MaxMsnRows == 2

\* a data row of a category sheet: ticked and not yet identified, ticked and
\* identified, or not ticked
MsnSrcRow(k, r) ==
  CASE k = 1 -> Row(DATE, HandleOf(r), "TRUE", "", "", "")
    [] k = 2 -> Row(DATE, HandleOf(r), "TRUE", "", "", IdOf(r))
    [] OTHER -> Row(DATE, HandleOf(r), "", "", "", IdOf(r))

MsnSrc1Sheets ==
  {<<Hdr>> \o [j \in 1..Len(f) |-> MsnSrcRow(f[j], j + 1)] :
     f \in UNION {[1..m -> 1..3] : m \in 0..MaxMsnRows}}

MsnSrc2Sheets == {<<Hdr>>, <<Hdr, Row(DATE, "@e", "TRUE", "", "", "")>>}

\* 'MSN Creators': header only, one record, and below them possibly a row
\* that holds nothing but a ticked checkbox
MsnDestSheets ==
  {<<Hdr>>,
   <<Hdr, Row(DATE, "@g", "TRUE", "", "", "id-v")>>,
   <<Hdr, Row("", "", "TRUE", "", "", "")>>,
   <<Hdr, Row(DATE, "@g", "TRUE", "", "", "id-v"), Row("", "", "TRUE", "", "", "")>>}

MsnStore(s1, s2, sd) ==
  [t \in Titles |->
     CASE t = SRC1 -> s1
       [] t = SRC2 -> s2
       [] t = MSN_DEST_SHEET -> sd
       [] OTHER -> <<Hdr>>]

\* index.js:719: runMsnCheckboxCopy is called
InitMsn ==
  /\ sheets \in {MsnStore(s1, s2, sd) :
                   s1 \in MsnSrc1Sheets, s2 \in MsnSrc2Sheets, sd \in MsnDestSheets}
  /\ exists = Titles
  /\ clock = 1
  /\ runs = 1
  /\ proc = [p \in Procs |-> [InitLocal EXCEPT !.pc = IF p = 1 THEN "x_meta" ELSE "idle"]]
  /\ pre = sheets
  /\ edited = {}

NextMsn == runMsnCheckboxCopy(1)

SpecMsn == InitMsn /\ [][NextMsn]_vars

\* the last row of the sheet that holds a value in any cell (0 when none)
LastRowWithData(sheet) ==
  LET S == {r \in 1..Len(sheet) : sheet[r] # EmptyRow}
  IN  IF S = {} THEN 0 ELSE CHOOSE m \in S : \A j \in S : j <= m

\* the positions of the pasteData requests in the copy batch of process p
PastePositions(p) ==
  {j \in 1..Len(proc[p].copyRequests) : proc[p].copyRequests[j].kind = "pasteData"}

MaxDelayAttempts == 9

\* stop_watch.sh:51-52: a call of withBackoff with maxAttempts up to
\* MaxDelayAttempts
InitDelay ==
  /\ sheets = [t \in Titles |-> <<Hdr>>]
  /\ exists = Titles
  /\ clock = 0
  /\ runs = 1
  /\ \E m \in 1..MaxDelayAttempts :
       proc = [p \in Procs |-> IF p = 1 THEN BackoffLocal(m) ELSE InitLocal]
  /\ pre = sheets
  /\ edited = {}

SpecDelay == InitDelay /\ [][NextBackoff]_vars

\* 500 doubled k times
RECURSIVE Doubled(_)
Doubled(k) == IF k = 0 THEN 500 ELSE Doubled(k - 1) + Doubled(k - 1)

\* the base delay before retry k
BaseDelay(k) == IF Doubled(k) > 30000 THEN 30000 ELSE Doubled(k)

\* C26: the delay d that withBackoff waits before retry k satisfies
\* BaseDelay(k) <= d <= BaseDelay(k) + 299 with BaseDelay(k) = min(30000,
\* 500 * 2^k); the base delay of a retry is twice that of the retry before it
\* or the cap of 30000, and a delay is less than the one before it by at most
\* the jitter.
C26_BackoffDelay ==
  /\ [](proc[1].pc = "wb_sleep" =>
          /\ BaseDelay(proc[1].attempt) <= proc[1].delay
          /\ proc[1].delay <= BaseDelay(proc[1].attempt) + 299
          /\ BaseDelay(proc[1].attempt) <= 30000
          /\ proc[1].attempt > 0 =>
               /\ BaseDelay(proc[1].attempt) >= BaseDelay(proc[1].attempt - 1)
               /\ \/ BaseDelay(proc[1].attempt) = 2 * BaseDelay(proc[1].attempt - 1)
                  \/ BaseDelay(proc[1].attempt) = 30000)
  /\ [][(proc[1].pc = "wb_try" /\ proc'[1].pc = "wb_sleep" /\ proc[1].attempt > 0) =>
          /\ proc'[1].delay >= proc[1].delay - 299
          /\ proc[1].delay < 30000 => proc'[1].delay > proc[1].delay]_vars

\* withBackoff sleeps before its seventh retry, for the capped delay and the
\* largest jitter
C26_Witness ==
  /\ proc[1].pc = "wb_sleep"
  /\ proc[1].attempt = 6
  /\ proc[1].delay = 30299


(************************ the webhook relay (webhook/server.js) ************)
\* requests posted to /drive-webhook
MaxWebhookRequests == 2
\* readings of the clock that differ from the one before
MaxTicks == 2

\* server.js:11
COOLDOWN_MS == 5000

\* Date.now() when the server starts, long after the epoch
StartTime == 10000

\* by how much Date.now() differs between two readings: the wall clock may be
\* set back
ClockSteps == {0 - 1, 4999, 5000}

\* the values of the header X-Goog-Resource-State ("" when it is absent)
ResourceStates == {"", "sync", "update", "change", "add", "modify"}

\* the body of a request: one that express.json() accepts (none, or well-formed
\* JSON), or one that it rejects
Bodies == {"accepted", "malformed"}

\* the requests of the model: any header with an accepted body, and one
\* request with a body that is not JSON
WebhookRequests ==
  {q \in [state : ResourceStates, body : Bodies] :
     q.body = "malformed" => q.state = "update"}

\* server.js:22
Qualifying == {"update", "change", "add", "modify"}

\* server.js:21: req.header("X-Goog-Resource-State") || "unknown"
headerOf(h) == IF h = "" THEN "unknown" ELSE h

\* every state starts a dispatch
qualifiesAlways(h) == TRUE

\* server.js:22
qualifies(h) == headerOf(h) \in Qualifying

\* server.js:18
inCooldown(now, lastFire) == now - lastFire < COOLDOWN_MS

\* lastFire is left as it was
lastFireKept(now, lastFire) == lastFire

\* server.js:19
lastFireAfter(now, lastFire) == now

\* server.js:10: the server is listening and has received no request; reqs is
\* the record of the requests received
WebhookLocal == [pc |-> "wh_listen", lastFire |-> 0, reqs |-> << >>]

\* what is recorded of a request: when it arrived, its header and body,
\* whether it passed the cooldown test, whether a dispatch was started for it,
\* whether it waits for fetch or is answered, and the status of the answer
Received(now, q, passed, dispatched, pos, status) ==
  [at |-> now, state |-> q.state, body |-> q.body, passed |-> passed,
   dispatched |-> dispatched, pos |-> pos, status |-> status]

\* server.js:5 and 15-25: a request arrives. express.json() answers a body it
\* cannot parse with 400 and the handler is not called; else the handler runs
\* up to its first await
handle(l, now, q) ==
  IF q.body = "malformed"
  THEN [l EXCEPT !.reqs = Append(l.reqs, Received(now, q, FALSE, FALSE, "answered", 400))]
  ELSE IF inCooldown(now, l.lastFire)
  THEN [l EXCEPT !.reqs = Append(l.reqs, Received(now, q, FALSE, FALSE, "answered", 200))]
  ELSE IF ~qualifies(q.state)
  THEN [l EXCEPT !.lastFire = lastFireAfter(now, l.lastFire),
                 !.reqs = Append(l.reqs, Received(now, q, TRUE, FALSE, "answered", 200))]
  ELSE [l EXCEPT !.lastFire = lastFireAfter(now, l.lastFire),
                 !.reqs = Append(l.reqs, Received(now, q, TRUE, TRUE, "fetching", 0))]

WhPost ==
  /\ proc[1].pc = "wh_listen"
  /\ Len(proc[1].reqs) < MaxWebhookRequests
  /\ \E q \in WebhookRequests : Set(1, handle(proc[1], clock, q))
  /\ UNCHANGED <<sheets, exists, clock, runs, pre, edited>>

\* server.js:25-36: the fetch of request i settles (r.ok, not r.ok, or an
\* exception, caught at 33); in each case the answer is 200
WhFetchSettles ==
  /\ proc[1].pc = "wh_listen"
  /\ \E i \in 1..Len(proc[1].reqs) :
       /\ proc[1].reqs[i].pos = "fetching"
       /\ Set(1, [proc[1] EXCEPT !.reqs[i].pos = "answered", !.reqs[i].status = 200])
  /\ UNCHANGED <<sheets, exists, clock, runs, pre, edited>>

\* time passes between two events
WhTick ==
  /\ proc[1].pc = "wh_listen"
  /\ runs < MaxTicks
  /\ runs' = runs + 1
  /\ \E d \in ClockSteps : clock' = clock + d
  /\ UNCHANGED <<sheets, exists, proc, pre, edited>>

InitWebhook ==
  /\ sheets = [t \in Titles |-> <<Hdr>>]
  /\ exists = Titles
  /\ clock = StartTime
  /\ runs = 0
  /\ proc = [p \in Procs |-> IF p = 1 THEN WebhookLocal ELSE InitLocal]
  /\ pre = sheets
  /\ edited = {}

NextWebhook == WhPost \/ WhFetchSettles \/ WhTick

SpecWebhook == InitWebhook /\ [][NextWebhook]_vars

\* the promise of fetch settles
FairSpecWebhook == SpecWebhook /\ WF_vars(WhFetchSettles)

\* C27: of any two requests for which a workflow dispatch was started, the
\* later one was handled at least COOLDOWN_MS after the earlier one, whether or
\* not the earlier fetch has settled.
C27_WebhookCooldown ==
  proc[1].pc = "wh_listen" =>
    \A i \in 1..Len(proc[1].reqs) : \A j \in 1..Len(proc[1].reqs) :
      (i < j /\ proc[1].reqs[i].dispatched /\ proc[1].reqs[j].dispatched) =>
         proc[1].reqs[j].at - proc[1].reqs[i].at >= COOLDOWN_MS

\* two dispatches were started exactly 5000 ms apart, the second while the
\* fetch of the first had not settled
C27_Witness ==
  /\ proc[1].pc = "wh_listen"
  /\ Len(proc[1].reqs) = 2
  /\ proc[1].reqs[1].dispatched /\ proc[1].reqs[1].pos = "fetching"
  /\ proc[1].reqs[2].dispatched
  /\ proc[1].reqs[2].at - proc[1].reqs[1].at = COOLDOWN_MS


\* request i of the record started no dispatch unless its header names one of
\* the four states; a request that passed the cooldown test shuts out every
\* later request handled less than 5000 ms after it; only a request with a
\* dispatch waits for fetch
FilteredAndDropped(i) ==
  LET q == proc[1].reqs[i]
  IN  /\ q.state \notin {"update", "change", "add", "modify"} => ~q.dispatched
      /\ q.passed =>
           \A j \in (i + 1)..Len(proc[1].reqs) :
             proc[1].reqs[j].at - q.at < 5000 =>
               ~proc[1].reqs[j].dispatched /\ ~proc[1].reqs[j].passed
      /\ q.pos = "fetching" => q.dispatched

\* the request that a step has added to the record passed the cooldown test
\* and set lastFire if it reached the handler outside the cooldown, whatever
\* its header; else it left lastFire as it was
SetsLastFire ==
  Len(proc'[1].reqs) = Len(proc[1].reqs) + 1 =>
    LET q == proc'[1].reqs[Len(proc'[1].reqs)]
    IN  IF q.body = "accepted" /\ q.at - proc[1].lastFire >= 5000
        THEN q.passed /\ proc'[1].lastFire = q.at
        ELSE ~q.passed /\ proc'[1].lastFire = proc[1].lastFire

\* a request that waits for fetch is answered, with status 200
FetchAnswered ==
  \A i \in 1..MaxWebhookRequests :
    (Len(proc[1].reqs) >= i /\ proc[1].reqs[i].pos = "fetching")
      ~> (/\ Len(proc[1].reqs) >= i
          /\ proc[1].reqs[i].pos = "answered"
          /\ proc[1].reqs[i].status = 200)

\* C28 as stated: a request whose state is not update, change, add or modify
\* starts no dispatch but sets lastFire when outside the cooldown; a request
\* handled less than 5000 ms after one that passed the cooldown test is
\* dropped; and every request is answered, with status 200.
C28_WebhookFilteringEvery ==
  /\ [](\A i \in 1..Len(proc[1].reqs) :
          /\ FilteredAndDropped(i)
          /\ proc[1].reqs[i].pos = "answered" => proc[1].reqs[i].status = 200)
  /\ [][SetsLastFire]_vars
  /\ FetchAnswered

\* C28 amended: the same, with status 200 for every request whose body
\* express.json() accepts, that is every request that reaches the handler.
C28_WebhookFiltering ==
  /\ [](\A i \in 1..Len(proc[1].reqs) :
          /\ FilteredAndDropped(i)
          /\ (proc[1].reqs[i].pos = "answered" /\ proc[1].reqs[i].body = "accepted") =>
               proc[1].reqs[i].status = 200)
  /\ [][SetsLastFire]_vars
  /\ FetchAnswered

\* a request with state sync passed the cooldown test and started nothing;
\* a request with state update, handled 4999 ms later, was dropped and
\* answered with 200
C28_Witness ==
  /\ Len(proc[1].reqs) = 2
  /\ proc[1].reqs[1].state = "sync"
  /\ proc[1].reqs[1].passed /\ ~proc[1].reqs[1].dispatched
  /\ proc[1].lastFire = proc[1].reqs[1].at
  /\ proc[1].reqs[2].state = "update" /\ proc[1].reqs[2].body = "accepted"
  /\ proc[1].reqs[2].at - proc[1].reqs[1].at = 4999
  /\ ~proc[1].reqs[2].dispatched
  /\ proc[1].reqs[2].pos = "answered" /\ proc[1].reqs[2].status = 200

=============================================================================
